---- MODULE Spec2Model ----
(***************************************************************************)
(* Model of react-hook-form-ai: the form hook (src/src/useForm.ts) with    *)
(* its per-field debounce timers, and the AI assistant                     *)
(* (src/src/utils/useAIAssistant.ts) with its two providers.               *)
(*                                                                         *)
(* Strings are sequences of one-character strings, so that trimming,       *)
(* quote stripping, concatenation and JSON extraction are computed.        *)
(***************************************************************************)
EXTENDS Integers, Sequences, FiniteSets, TLC

\* ------------------------------------------------------------------ bounds
\* Time runs in ticks 0..MaxTime; the quiet period is DebounceTicks ticks.
MaxTime == 4
DebounceTicks == 2
\* Blur events and user edits of one behaviour.
MaxBlurs == 2
MaxEdits == 1

\* ------------------------------------------------------------------ strings
WS == {" "}

RECURSIVE TrimStart(_)
TrimStart(s) ==
    IF s # <<>> /\ Head(s) \in WS THEN TrimStart(Tail(s)) ELSE s

RECURSIVE TrimEnd(_)
TrimEnd(s) ==
    IF s # <<>> /\ s[Len(s)] \in WS THEN TrimEnd(SubSeq(s, 1, Len(s) - 1)) ELSE s

\* String.prototype.trim
Trim(s) == TrimEnd(TrimStart(s))

\* ------------------------------------------------------------------ form hook
Fields == {"name", "email"}

Jo == <<"J", "o">>
\* What an input element can hold: empty, whitespace only, a text.
Values == {<<>>, <<" ">>, Jo}

\* mergedConfig.debounceMs, in ticks
debounceMs == DebounceTicks

NoTimer == 0
\* before the first tick
Never == 0 - 1

VARIABLES
    aiEnabled,        \* mergedConfig.enabled
    excludeFields,    \* mergedConfig.excludeFields
    mounted,          \* the effect of useForm is set up and not yet cleaned up
    now,              \* the clock
    value,            \* e.target.value of each field's element, read live
    handlers,         \* onBlur handlers suspended at `await baseRegister.onBlur`
    timers,           \* the runtime's scheduled, not yet fired, not cleared timeouts
    debounceTimers,   \* debounceTimers.current: field name -> timer id
    nextTimerId,      \* the id setTimeout returns next
    nBlurs,
    nEdits,
    calls,            \* ai.suggestValue invocations made by timer callbacks
    lastBlurAt,       \* history: time of the field's last blur event
    lastBlurValue,    \* history: the field's value at its last blur event
    editedSince,      \* history: the field was edited after its last blur event
    burstCalls        \* history: invocations for the field's current burst of blurs

formVars == <<aiEnabled, excludeFields, mounted, now, value, handlers, timers,
              debounceTimers, nextTimerId, nBlurs, nEdits, calls, lastBlurAt,
              lastBlurValue, editedSince, burstCalls>>

VARIABLES
    executionOrder,   \* the execution order useForm hands to useAIAssistant
    op,               \* the assistant call of this behaviour
    pc,               \* where that call stands
    callName,         \* suggestValue's name
    callValue,        \* suggestValue's value
    callFields,       \* autofill's fields
    result,           \* the local variable result
    serverResult,     \* autofill's local variable serverResult
    ret,              \* what the call returned
    attempts,         \* history: the providers contacted, in order
    lm,               \* history: calls made to LanguageModel and its session
    fetches,          \* history: HTTP requests issued
    localEnv,         \* history: how the local model behaved
    remoteEnv         \* history: how the remote endpoint behaved

asstVars == <<executionOrder, op, pc, callName, callValue, callFields, result,
              serverResult, ret, attempts, lm, fetches, localEnv, remoteEnv>>

VARIABLES
    providers,        \* AIFormProvider's providers prop: the caller's array
    providersGiven,   \* history: that array as the caller passed it
    explicitOrder,    \* AIFormProvider's executionOrder prop
    sortedProviders   \* the memoised sortedProviders

resolveVars == <<providers, providersGiven, explicitOrder, sortedProviders>>

VARIABLES
    aiLoading,          \* useForm's aiLoading state
    aiDownloadProgress, \* useForm's aiDownloadProgress state
    hookOp,             \* the aiAutofill or aiSuggest call of this behaviour
    hookPc,             \* where that call stands
    hookRet,            \* what it returned
    fieldsToFill,       \* aiAutofill's fieldsToFill
    written,            \* history: the field names form.setValue was called with
    otherCalls          \* further aiSuggest calls that are under way

hookVars == <<aiLoading, aiDownloadProgress, hookOp, hookPc, hookRet,
              fieldsToFill, written, otherCalls>>

\* what the form hook's actions leave alone, and what the assistant's do
outsideForm == <<asstVars, resolveVars, hookVars>>
outsideAssistant == <<formVars, resolveVars, hookVars>>

vars == <<formVars, asstVars, resolveVars, hookVars>>

InitForm ==
    /\ aiEnabled \in BOOLEAN
    /\ excludeFields \in {{}, {"email"}}
    /\ mounted = TRUE
    /\ now = 0
    /\ value = [f \in Fields |-> <<>>]
    /\ handlers = {}
    /\ timers = {}
    /\ debounceTimers = [f \in Fields |-> NoTimer]
    /\ nextTimerId = 1
    /\ nBlurs = 0
    /\ nEdits = 0
    /\ calls = <<>>
    /\ lastBlurAt = [f \in Fields |-> Never]
    /\ lastBlurValue = [f \in Fields |-> <<>>]
    /\ editedSince = [f \in Fields |-> FALSE]
    /\ burstCalls = [f \in Fields |-> 0]

\* registerWithAI returns the enhanced registration (not baseRegister)
EnhancedWhileDisabled(name) == name \notin excludeFields
Enhanced(name) == aiEnabled /\ name \notin excludeFields

\* The user types into the field's element.
Edit(f, v) ==
    /\ mounted
    /\ nEdits < MaxEdits
    /\ v # value[f]
    /\ value' = [value EXCEPT ![f] = v]
    /\ nEdits' = nEdits + 1
    /\ editedSince' = [editedSince EXCEPT ![f] = TRUE]
    /\ UNCHANGED <<aiEnabled, excludeFields, mounted, now, handlers, timers,
                   debounceTimers, nextTimerId, nBlurs, calls, lastBlurAt,
                   lastBlurValue, burstCalls>>
    /\ UNCHANGED outsideForm

\* history: a blur event of field f arrives less than the quiet period
\* (the delay given to setTimeout) after the previous one
Rapid(f) == lastBlurAt[f] # Never /\ now - lastBlurAt[f] < debounceMs

\* The formContext of the `ai` that registerWithAI closes over: formValues =
\* form.watch() of the render in which registerWithAI was memoised. Its
\* dependencies (form, aiEnabled, excludeFields, debounceMs) do not change in a
\* form whose options keep their identity (useForm() as in the README, or
\* memoised options), so that is the first render, with the default values.
RegisteredFormContext == [f \in Fields |-> <<>>]

\* The field loses focus: the handler runs up to `await baseRegister.onBlur?.(e)`.
\* A field with the base registration only runs the original onBlur.
onBlur(f) ==
    /\ mounted
    /\ nBlurs < MaxBlurs
    /\ nBlurs' = nBlurs + 1
    /\ handlers' = IF Enhanced(f)
                   THEN handlers \cup {[hid |-> nBlurs + 1, name |-> f]}
                   ELSE handlers
    /\ lastBlurAt' = [lastBlurAt EXCEPT ![f] = now]
    /\ lastBlurValue' = [lastBlurValue EXCEPT ![f] = value[f]]
    /\ editedSince' = [editedSince EXCEPT ![f] = FALSE]
    /\ burstCalls' = [burstCalls EXCEPT ![f] = IF Rapid(f) THEN @ ELSE 0]
    /\ UNCHANGED <<aiEnabled, excludeFields, mounted, now, value, timers,
                   debounceTimers, nextTimerId, nEdits, calls>>
    /\ UNCHANGED outsideForm

\* const timerId = debounceTimers.current.get(name); if (timerId) clearTimeout(timerId)
\* : the timers still scheduled afterwards.
ClearExistingNone(name) == timers
ClearExistingAll(name) == {}
ClearExisting(name) == {t \in timers : t.id # debounceTimers[name]}

\* The original onBlur has settled: the rest of the handler runs in one go.
onBlurResume(h) ==
    /\ h \in handlers
    /\ LET newTimer == [id |-> nextTimerId, name |-> h.name, hid |-> h.hid,
                        setAt |-> now, due |-> now + debounceMs]
       IN /\ timers' = ClearExisting(h.name) \cup {newTimer}
          /\ debounceTimers' = [debounceTimers EXCEPT ![h.name] = newTimer.id]
    /\ nextTimerId' = nextTimerId + 1
    /\ handlers' = handlers \ {h}
    /\ UNCHANGED <<aiEnabled, excludeFields, mounted, now, value, nBlurs, nEdits,
                   calls, lastBlurAt, lastBlurValue, editedSince, burstCalls>>
    /\ UNCHANGED outsideForm

\* if (value && value.trim().length > 0)
HasValue(v) == Len(v) > 0 /\ Len(Trim(v)) > 0

\* const value = e?.target?.value, in the timer callback: the element's value
\* when the callback runs
ExpiryValueAtBlur(t) == lastBlurValue[t.name]
ExpiryValue(t) == value[t.name]

\* The timeout expires: the callback given to setTimeout runs.
timerCallback(t) ==
    /\ t \in timers
    /\ t.due <= now
    /\ timers' = timers \ {t}
    /\ IF HasValue(ExpiryValue(t))
       THEN /\ calls' = Append(calls,
                   [name |-> t.name, value |-> ExpiryValue(t), at |-> now,
                    formContext |-> RegisteredFormContext,
                    afterTeardown |-> ~mounted, setAt |-> t.setAt,
                    lastBlurAt |-> lastBlurAt[t.name],
                    lastBlurValue |-> lastBlurValue[t.name],
                    edited |-> editedSince[t.name],
                    nth |-> burstCalls[t.name] + 1])
            /\ burstCalls' = [burstCalls EXCEPT ![t.name] = @ + 1]
       ELSE UNCHANGED <<calls, burstCalls>>
    /\ UNCHANGED <<aiEnabled, excludeFields, mounted, now, value, handlers,
                   debounceTimers, nextTimerId, nBlurs, nEdits, lastBlurAt,
                   lastBlurValue, editedSince>>
    /\ UNCHANGED outsideForm

\* debounceTimers.current.forEach(timer => clearTimeout(timer)): what stays scheduled
ClearAll == {t \in timers : \A f \in Fields : debounceTimers[f] # t.id}

\* The cleanup of the effect: the form session ends.
cleanup ==
    /\ mounted
    /\ mounted' = FALSE
    /\ timers' = ClearAll
    /\ debounceTimers' = [f \in Fields |-> NoTimer]
    /\ UNCHANGED <<aiEnabled, excludeFields, now, value, handlers, nextTimerId,
                   nBlurs, nEdits, calls, lastBlurAt, lastBlurValue, editedSince,
                   burstCalls>>
    /\ UNCHANGED outsideForm

\* Time passes; a timeout fires when it is due.
Tick ==
    /\ now < MaxTime
    /\ \A t \in timers : t.due > now
    /\ now' = now + 1
    /\ UNCHANGED <<aiEnabled, excludeFields, mounted, value, handlers, timers,
                   debounceTimers, nextTimerId, nBlurs, nEdits, calls, lastBlurAt,
                   lastBlurValue, editedSince, burstCalls>>
    /\ UNCHANGED outsideForm

NextForm ==
    \/ \E f \in Fields, v \in Values : Edit(f, v)
    \/ \E f \in Fields : onBlur(f)
    \/ \E h \in handlers : onBlurResume(h)
    \/ \E t \in timers : timerCallback(t)
    \/ cleanup
    \/ Tick

\* ------------------------------------------------------------------ JavaScript values
JNull == [t |-> "null"]
JUndefined == [t |-> "undefined"]
JStr(s) == [t |-> "string", s |-> s]
JNum(n) == [t |-> "number", n |-> n]
JObj(o) == [t |-> "object", o |-> o]
\* the call rejected with an exception
Thrown == [t |-> "throw"]
\* the call has not returned
Pending == [t |-> "pending"]
\* JSON.parse threw a SyntaxError
SyntaxError == [t |-> "syntaxerror"]

\* ToBoolean
Truthy(j) ==
    CASE j.t = "string" -> Len(j.s) > 0
      [] j.t = "number" -> j.n # 0
      [] j.t = "object" -> TRUE
      [] OTHER -> FALSE

Range(seq) == {seq[i] : i \in DOMAIN seq}

RECURSIVE SeqsUpTo(_, _)
\* the strings over an alphabet, up to a length
SeqsUpTo(alphabet, n) ==
    IF n = 0 THEN {<<>>}
    ELSE LET shorter == SeqsUpTo(alphabet, n - 1)
         IN shorter \cup {Append(q, c) : q \in {r \in shorter : Len(r) = n - 1},
                                         c \in alphabet}

\* ------------------------------------------------------------------ the texts
\* Lengths of the texts the local model answers with.
MaxSuggestLen == 3
MaxJsonLen == 4
\* Fields of one autofill request.
MaxFields == 2
\* how many further aiSuggest calls overlap with the call that is followed
MaxOverlap == 1

Quotes == {"\"", "'"}
\* A suggestion text: letters, blanks, quote characters.
SuggestChars == {"a", " ", "\"", "'"}
SuggestTexts == SeqsUpTo(SuggestChars, MaxSuggestLen)

FName == <<"n", "a", "m", "e">>
FEmail == <<"e", "m", "a", "i", "l">>
FieldNames == {FName, FEmail}
FieldLists == SeqsUpTo(FieldNames, MaxFields)

\* An autofill answer is a text of tokens: the braces, a character of prose, and
\* the members of a JSON object: "N" stands for "name":"Alice", "B" for
\* "name":"Alice","email":"alice@x.com"; "5" is a number.
Alice == <<"A", "l", "i", "c", "e">>
AliceAt == <<"a", "@", "x">>
Members(tok) ==
    CASE tok = "N" -> [k \in {FName} |-> Alice]
      [] tok = "B" -> [k \in {FName, FEmail} |-> IF k = FName THEN Alice ELSE AliceAt]
JsonChars == {"{", "}", "N", "B", "p"}
JsonTexts == SeqsUpTo(JsonChars, MaxJsonLen)
EmptyObject == [k \in {} |-> <<>>]

\* JSON.parse
ParseJSON(s) ==
    CASE s = <<"{", "}">> -> JObj(EmptyObject)
      [] Len(s) = 3 /\ s[1] = "{" /\ s[2] \in {"N", "B"} /\ s[3] = "}" -> JObj(Members(s[2]))
      [] s = <<"5">> -> JNum(5)
      [] OTHER -> SyntaxError

NoMatch == <<"no match">>
\* result.match(/\{[\s\S]*\}/): from the first "{" to the last "}" after it
JsonMatch(s) ==
    LET opens == {i \in DOMAIN s : s[i] = "{"}
    IN IF opens = {} THEN NoMatch
       ELSE LET first == CHOOSE i \in opens : \A j \in opens : i <= j
                closes == {i \in DOMAIN s : s[i] = "}" /\ i > first}
            IN IF closes = {} THEN NoMatch
               ELSE SubSeq(s, first, CHOOSE i \in closes : \A j \in closes : i >= j)

\* ------------------------------------------------------------------ the providers
\* How the local model behaves in one attempt: LanguageModel is defined or not,
\* what availability() answers (or that it throws), whether create() throws,
\* and what prompt() answers (a text, or that it throws).
NoText == <<"throws">>
\* The answers are paired in full with a model that is ready, and in a sample
\* with one that is still to be downloaded: past the probe the code does not
\* look at the availability again.
LocalEnvs(texts, sample) ==
    {[defined |-> FALSE, availability |-> "unavailable", create |-> "throw", prompt |-> NoText]}
    \cup {[defined |-> TRUE, availability |-> a, create |-> "throw", prompt |-> NoText] :
             a \in {"unavailable", "throw"}}
    \cup {[defined |-> TRUE, availability |-> a, create |-> "throw", prompt |-> NoText] :
             a \in {"readily", "downloadable", "downloading"}}
    \cup {[defined |-> TRUE, availability |-> "readily", create |-> "ok", prompt |-> x] :
             x \in texts \cup {NoText}}
    \cup {[defined |-> TRUE, availability |-> a, create |-> "ok", prompt |-> x] :
             a \in {"downloadable", "downloading"}, x \in sample \cup {NoText}}
NoLocal == [defined |-> FALSE, availability |-> "not asked", create |-> "throw", prompt |-> NoText]

NoLmCalls == [probes |-> 0, creates |-> 0, prompts |-> 0, destroys |-> 0]

\* useChromeAI: what it returns and the calls it makes
useChromeAISkippingDownload(env) ==
    IF ~env.defined
    THEN [result |-> JNull, calls |-> NoLmCalls]
    ELSE IF env.availability # "readily"
    THEN [result |-> JNull, calls |-> [NoLmCalls EXCEPT !.probes = 1]]
    ELSE IF env.create = "throw"
    THEN [result |-> JNull, calls |-> [NoLmCalls EXCEPT !.probes = 1, !.creates = 1]]
    ELSE IF env.prompt = NoText
    THEN [result |-> JNull,
          calls |-> [probes |-> 1, creates |-> 1, prompts |-> 1, destroys |-> 0]]
    ELSE [result |-> JStr(env.prompt),
          calls |-> [probes |-> 1, creates |-> 1, prompts |-> 1, destroys |-> 1]]

useChromeAI(env) ==
    IF ~env.defined
    THEN [result |-> JNull, calls |-> NoLmCalls]
    ELSE IF env.availability \in {"unavailable", "throw"}
    THEN [result |-> JNull, calls |-> [NoLmCalls EXCEPT !.probes = 1]]
    ELSE IF env.create = "throw"
    THEN [result |-> JNull, calls |-> [NoLmCalls EXCEPT !.probes = 1, !.creates = 1]]
    ELSE IF env.prompt = NoText
    THEN [result |-> JNull,
          calls |-> [probes |-> 1, creates |-> 1, prompts |-> 1, destroys |-> 0]]
    ELSE [result |-> JStr(env.prompt),
          calls |-> [probes |-> 1, creates |-> 1, prompts |-> 1, destroys |-> 1]]

\* How the remote endpoint behaves: the request fails, the status is not 2xx, the
\* body is no JSON, the body is JSON null, or the body is an object whose
\* suggestion and autofillData fields hold these values.
RemoteEnvs(suggestions, autofillDatas) ==
    {[k |-> "neterr"], [k |-> "non2xx"], [k |-> "badjson"], [k |-> "jsonnull"]}
    \cup {[k |-> "json", suggestion |-> x, autofillData |-> y] :
             x \in suggestions, y \in autofillDatas}
NoRemote == [k |-> "not asked"]

\* useServerAI: data.suggestion || data.autofillData || null, null on any error
useServerAI(env) ==
    IF env.k # "json" THEN JNull
    ELSE IF Truthy(env.suggestion) THEN env.suggestion
    ELSE IF Truthy(env.autofillData) THEN env.autofillData
    ELSE JNull

\* What the fields of the remote body hold: the field the request is for, and
\* the other one.
RemoteOtherValues == {JUndefined, JStr(<<"a">>), JObj(Members("N"))}
RemoteSuggestValues ==
    {JUndefined, JNum(5), JObj(EmptyObject)} \cup {JStr(x) : x \in SuggestTexts}
RemoteAutofillValues ==
    {JUndefined, JNum(5), JObj(EmptyObject), JObj(Members("N")), JObj(Members("B")),
     JStr(<<"p">>), JStr(<<"5">>), JStr(<<"{", "}">>), JStr(<<"{", "N", "}">>),
     JStr(<<"{", "B", "}">>), JStr(<<"{", "N">>)}

SuggestLocalEnvs == LocalEnvs(SuggestTexts, {<<>>, <<"a">>})
SuggestRemoteEnvs == RemoteEnvs(RemoteSuggestValues, RemoteOtherValues)
AutofillLocalEnvs == LocalEnvs(JsonTexts, {<<>>, <<"{", "N", "}">>})
AutofillRemoteEnvs == RemoteEnvs(RemoteOtherValues, RemoteAutofillValues)

\* A call made through the form hook meets a sample of these: what the hook
\* does with the mapping depends on the mapping's keys only.
HookLocalEnvs ==
    LocalEnvs({<<>>, <<"{", "}">>, <<"{", "N", "}">>, <<"{", "B", "}">>, <<"p", "{", "N">>},
              {<<"{", "B", "}">>})
HookRemoteEnvs ==
    RemoteEnvs({JUndefined},
               {JUndefined, JObj(Members("N")), JObj(Members("B")), JStr(<<"{", "B", "}">>)})

\* ------------------------------------------------------------------ suggestValue
\* if (!enabled) return null
ShortCircuitsNever == FALSE
ShortCircuits == ~aiEnabled

\* if (!result): the server is asked
FallsBackAlways(r) == TRUE
FallsBack(r) == ~Truthy(r)

\* result.trim().replace(/^["']|["']$/g, '')
CleanQuotesFirst(s) ==
    LET u == IF s # <<>> /\ Head(s) \in Quotes THEN Tail(s) ELSE s
        v == IF u # <<>> /\ u[Len(u)] \in Quotes THEN SubSeq(u, 1, Len(u) - 1) ELSE u
    IN Trim(v)
Clean(s) ==
    LET t == Trim(s)
        u == IF t # <<>> /\ Head(t) \in Quotes THEN Tail(t) ELSE t
    IN IF u # <<>> /\ u[Len(u)] \in Quotes THEN SubSeq(u, 1, Len(u) - 1) ELSE u

\* if (result) { return cleaned } return null; result.trim is no function of a
\* number or an object
SuggestReturn(r) ==
    IF Truthy(r)
    THEN IF r.t = "string" THEN JStr(Clean(r.s)) ELSE Thrown
    ELSE JNull

Contacted(env) == IF env.defined THEN <<"chrome">> ELSE <<>>

\* suggestValue is called: up to the first await
suggestValueCall(name, v) ==
    /\ op = "none"
    /\ op' = "suggestValue"
    /\ callName' = name
    /\ callValue' = v
    /\ IF ShortCircuits
       THEN pc' = "done" /\ ret' = JNull
       ELSE pc' = "chrome" /\ ret' = Pending
    /\ UNCHANGED <<executionOrder, callFields, result, serverResult, attempts, lm,
                   fetches, localEnv, remoteEnv>>

\* a caller outside the form hook
suggestValue(name, v) ==
    /\ suggestValueCall(name, v)
    /\ UNCHANGED outsideAssistant

\* useChromeAI has settled: up to the next await or the return
suggestChrome ==
    /\ op = "suggestValue" /\ pc = "chrome"
    /\ \E env \in SuggestLocalEnvs :
          LET r == useChromeAI(env)
          IN /\ result' = r.result
             /\ lm' = r.calls
             /\ attempts' = attempts \o Contacted(env)
             /\ localEnv' = env
             /\ IF FallsBack(r.result)
                THEN pc' = "server" /\ ret' = Pending
                ELSE pc' = "done" /\ ret' = SuggestReturn(r.result)
    /\ UNCHANGED <<executionOrder, op, callName, callValue, callFields, serverResult,
                   fetches, remoteEnv>>
    /\ UNCHANGED outsideAssistant

\* useServerAI has settled: up to the return
suggestServer ==
    /\ op = "suggestValue" /\ pc = "server"
    /\ \E env \in SuggestRemoteEnvs :
          /\ result' = useServerAI(env)
          /\ remoteEnv' = env
          /\ ret' = SuggestReturn(useServerAI(env))
    /\ fetches' = fetches + 1
    /\ attempts' = Append(attempts, "custom")
    /\ pc' = "done"
    /\ UNCHANGED <<executionOrder, op, callName, callValue, callFields, serverResult,
                   lm, localEnv>>
    /\ UNCHANGED outsideAssistant

\* ------------------------------------------------------------------ autofill
AIDisabled == <<"A", "I", " ", "d", "i", "s", "a", "b", "l", "e", "d">>
ExamplePrefix == <<"E", "x", "a", "m", "p", "l", "e", "_">>

\* Object.fromEntries(fields.map((f) => [f, "AI disabled"]))
DisabledMappingAsMock(fields) == [f \in Range(fields) |-> ExamplePrefix \o f]
DisabledMapping(fields) == [f \in Range(fields) |-> AIDisabled]

\* Object.fromEntries(fields.map((f) => [f, `Example_${f}`]))
MockMappingNoName(fields) == [f \in Range(fields) |-> ExamplePrefix]
MockMapping(fields) == [f \in Range(fields) |-> ExamplePrefix \o f]

NotParsed == [t |-> "not parsed"]
\* the object parsed out of the local model's answer, if there is one
LocalParse(r) ==
    IF Truthy(r) /\ JsonMatch(r.s) # NoMatch /\ ParseJSON(JsonMatch(r.s)).t = "object"
    THEN ParseJSON(JsonMatch(r.s))
    ELSE NotParsed

\* the object the server's answer is, or parses to, if there is one
ServerParse(r) ==
    IF ~Truthy(r) THEN NotParsed
    ELSE LET parsed == IF r.t = "string" THEN ParseJSON(r.s) ELSE r
         IN IF parsed.t = "object" THEN parsed ELSE NotParsed

\* how the providers can behave in this call
AutofillLocalInputs == IF hookOp = "none" THEN AutofillLocalEnvs ELSE HookLocalEnvs
AutofillRemoteInputs == IF hookOp = "none" THEN AutofillRemoteEnvs ELSE HookRemoteEnvs

\* autofill is called: up to the first await
autofillCall(fields) ==
    /\ op = "none"
    /\ op' = "autofill"
    /\ callFields' = fields
    /\ IF ~aiEnabled
       THEN pc' = "done" /\ ret' = JObj(DisabledMapping(fields))
       ELSE pc' = "chrome" /\ ret' = Pending
    /\ UNCHANGED <<executionOrder, callName, callValue, result, serverResult,
                   attempts, lm, fetches, localEnv, remoteEnv>>

\* a caller outside the form hook
autofill(fields) ==
    /\ autofillCall(fields)
    /\ UNCHANGED outsideAssistant

\* useChromeAI has settled: the answer is parsed, up to the next await or the return
autofillChromeRetrying ==
    /\ op = "autofill" /\ pc = "chrome"
    /\ \E env \in AutofillLocalInputs :
          LET r == useChromeAI(env)
          IN /\ result' = r.result
             /\ lm' = [c \in DOMAIN lm |-> lm[c] + r.calls[c]]
             /\ attempts' = attempts \o Contacted(env)
             /\ localEnv' = env
             /\ IF LocalParse(r.result) # NotParsed
                THEN pc' = "done" /\ ret' = LocalParse(r.result)
                ELSE IF Truthy(r.result) /\ lm.prompts = 0
                THEN pc' = "chrome" /\ ret' = Pending
                ELSE pc' = "server" /\ ret' = Pending
    /\ UNCHANGED <<executionOrder, op, callName, callValue, callFields, serverResult,
                   fetches, remoteEnv>>
    /\ UNCHANGED outsideAssistant

autofillChrome ==
    /\ op = "autofill" /\ pc = "chrome"
    /\ \E env \in AutofillLocalInputs :
          LET r == useChromeAI(env)
          IN /\ result' = r.result
             /\ lm' = r.calls
             /\ attempts' = attempts \o Contacted(env)
             /\ localEnv' = env
             /\ IF LocalParse(r.result) # NotParsed
                THEN pc' = "done" /\ ret' = LocalParse(r.result)
                ELSE pc' = "server" /\ ret' = Pending
    /\ UNCHANGED <<executionOrder, op, callName, callValue, callFields, serverResult,
                   fetches, remoteEnv>>
    /\ UNCHANGED outsideAssistant

\* useServerAI has settled: up to the return
autofillServer ==
    /\ op = "autofill" /\ pc = "server"
    /\ \E env \in AutofillRemoteInputs :
          /\ serverResult' = useServerAI(env)
          /\ remoteEnv' = env
          /\ ret' = IF ServerParse(useServerAI(env)) # NotParsed
                    THEN ServerParse(useServerAI(env))
                    ELSE JObj(MockMapping(callFields))
    /\ fetches' = fetches + 1
    /\ attempts' = Append(attempts, "custom")
    /\ pc' = "done"
    /\ UNCHANGED <<executionOrder, op, callName, callValue, callFields, result, lm,
                   localEnv>>
    /\ UNCHANGED outsideAssistant

\* ------------------------------------------------------------------ checkAvailability
\* What the probe meets: LanguageModel defined or not, and what availability()
\* answers, or that it throws.
AvailabilityEnvs == {env \in SuggestLocalEnvs : env.create = "throw"}

AvailabilityResult(available, status, needsDownload) ==
    JObj([available |-> available, status |-> status, needsDownload |-> needsDownload])

\* typeof window === "undefined" || typeof LanguageModel === "undefined"
NoCapability(env) == ~env.defined

\* what the try block returns for an answer of availability()
ProbedAlwaysAvailable(availability) ==
    AvailabilityResult(TRUE, availability, availability = "downloadable")
Probed(availability) ==
    AvailabilityResult(availability # "unavailable", availability,
                       availability = "downloadable")

\* checkAvailability is called: up to the await of the probe
checkAvailability ==
    /\ op = "none"
    /\ op' = "checkAvailability"
    /\ \E env \in AvailabilityEnvs :
          /\ localEnv' = env
          /\ IF NoCapability(env)
             THEN pc' = "done" /\ ret' = AvailabilityResult(FALSE, "unavailable", FALSE)
             ELSE pc' = "probe" /\ ret' = Pending
    /\ UNCHANGED <<executionOrder, callName, callValue, callFields, result,
                   serverResult, attempts, lm, fetches, remoteEnv>>
    /\ UNCHANGED outsideAssistant

\* LanguageModel.availability() has settled
checkAvailabilityProbe ==
    /\ op = "checkAvailability" /\ pc = "probe"
    /\ pc' = "done"
    /\ lm' = [lm EXCEPT !.probes = @ + 1]
    /\ ret' = IF localEnv.availability = "throw"
              THEN AvailabilityResult(FALSE, "error", FALSE)
              ELSE Probed(localEnv.availability)
    /\ UNCHANGED <<executionOrder, op, callName, callValue, callFields, result,
                   serverResult, attempts, fetches, localEnv, remoteEnv>>
    /\ UNCHANGED outsideAssistant

NextAvailability ==
    \/ checkAvailability
    \/ checkAvailabilityProbe

\* The orders a form can be configured with.
Orders == {<<>>, <<"chrome">>, <<"custom">>, <<"chrome", "custom">>, <<"custom", "chrome">>}

\* ------------------------------------------------------------------ provider resolution
\* Providers of one AIFormProvider.
MaxProviders == 2

JBool(b) == [t |-> "boolean", b |-> b]
JArray(a) == [t |-> "array", a |-> a]

ProviderTypes == {"chrome", "custom", "openai"}
\* An AIProvider: its type, its optional enabled flag, its optional priority.
ProviderConfigs ==
    [type : ProviderTypes,
     enabled : {JUndefined, JBool(TRUE), JBool(FALSE)},
     priority : {JUndefined, JNum(0), JNum(5), JNum(10)}]
ProviderLists == SeqsUpTo(ProviderConfigs, MaxProviders)

\* The executionOrder prop: absent, empty, or an order, which may name a type
\* that no provider is configured for.
ExplicitOrders == {JUndefined} \cup {JArray(o) : o \in Orders \cup {<<"openai", "chrome">>}}

Unresolved == [t |-> "unresolved"]

\* p.priority || 0
Priority(p) == IF Truthy(p.priority) THEN p.priority.n ELSE 0

\* (a, b) => (b.priority || 0) - (a.priority || 0)
CompareAscending(a, b) == Priority(a) - Priority(b)
Compare(a, b) == Priority(b) - Priority(a)

\* providers.filter(p => p.enabled !== false)
FilterEnabled(ps) == SelectSeq(ps, LAMBDA p : p.enabled # JBool(FALSE))

RECURSIVE InsertSorted(_, _)
\* x goes behind every element that does not compare greater than it
InsertSorted(x, sorted) ==
    IF sorted = <<>> THEN <<x>>
    ELSE IF Compare(Head(sorted), x) > 0 THEN <<x>> \o sorted
    ELSE <<Head(sorted)>> \o InsertSorted(x, Tail(sorted))

RECURSIVE SortStable(_)
\* Array.prototype.sort with the comparator: a stable sort
SortStable(ps) ==
    IF ps = <<>> THEN <<>>
    ELSE InsertSorted(ps[Len(ps)], SortStable(SubSeq(ps, 1, Len(ps) - 1)))

\* .map(p => p.type)
Types(ps) == [i \in DOMAIN ps |-> ps[i].type]

\* if (executionOrder && executionOrder.length > 0) return executionOrder
IsExplicit(order) == order.t = "array" /\ Len(order.a) > 0

\* the value of the memo
ResolveIgnoringOrder(ps, order) == Types(SortStable(FilterEnabled(ps)))
Resolve(ps, order) ==
    IF IsExplicit(order) THEN order.a ELSE Types(SortStable(FilterEnabled(ps)))

\* The caller's array afterwards: filter returns a new array, and it is that
\* one that sort reorders in place.
CallerArray(ps) == ps

\* AIFormProvider renders: the memo is computed.
resolveProviders ==
    /\ sortedProviders = Unresolved
    /\ sortedProviders' = JArray(Resolve(providers, explicitOrder))
    /\ providers' = CallerArray(providers)
    /\ UNCHANGED <<providersGiven, explicitOrder>>
    /\ UNCHANGED <<formVars, asstVars, hookVars>>

InitResolve ==
    /\ providers \in ProviderLists
    /\ providersGiven = providers
    /\ explicitOrder \in ExplicitOrders
    /\ sortedProviders = Unresolved

\* no AIFormProvider above the form
InitNoProvider ==
    /\ providers = <<>>
    /\ providersGiven = <<>>
    /\ explicitOrder = JUndefined
    /\ sortedProviders = Unresolved

NextResolve == resolveProviders

\* ------------------------------------------------------------------ the hook's calls
\* useState(false), useState(null): no aiAutofill or aiSuggest call yet
InitHook ==
    /\ aiLoading = FALSE
    /\ aiDownloadProgress = JNull
    /\ hookOp = "none"
    /\ hookPc = "idle"
    /\ hookRet = Pending
    /\ fieldsToFill = <<>>
    /\ written = {}
    /\ otherCalls = 0

\* String(field): the name of a registered field as the assistant gets it
FieldName(f) == IF f = "name" THEN FName ELSE FEmail

\* Object.keys(form.getValues())
RegisteredFields == <<FName, FEmail>>

\* excludeFields.includes(String(field))
Excluded(name) == \E f \in excludeFields : FieldName(f) = name

\* targetFields.filter(field => !excludeFields.includes(String(field)))
Fillable(target) == SelectSeq(target, LAMBDA name : ~Excluded(name))

\* The fields argument of aiAutofill: absent, or a list of names.
AutofillArgs == {JUndefined} \cup {JArray(l) : l \in FieldLists}

\* the finally block: setAiLoading(false); setAiDownloadProgress(null)
FinallyKeepsProgress == [aiLoading |-> FALSE, aiDownloadProgress |-> aiDownloadProgress]
Finally == [aiLoading |-> FALSE, aiDownloadProgress |-> JNull]

\* aiAutofill is called: up to the await of ai.autofill, or to its early return
aiAutofill(fields) ==
    /\ hookOp = "none" /\ op = "none"
    /\ hookOp' = "aiAutofill"
    /\ IF ~aiEnabled
       THEN /\ hookPc' = "returned" /\ hookRet' = JUndefined
            /\ UNCHANGED <<aiLoading, aiDownloadProgress, fieldsToFill, asstVars>>
       ELSE LET targetFields == IF Truthy(fields) \/ fields.t = "array"
                                THEN fields.a ELSE RegisteredFields
            IN /\ fieldsToFill' = Fillable(targetFields)
               /\ IF Len(Fillable(targetFields)) = 0
                  THEN /\ hookPc' = "returned" /\ hookRet' = JUndefined
                       /\ aiLoading' = Finally.aiLoading
                       /\ aiDownloadProgress' = Finally.aiDownloadProgress
                       /\ UNCHANGED asstVars
                  ELSE /\ hookPc' = "awaiting" /\ hookRet' = Pending
                       /\ aiLoading' = TRUE
                       /\ aiDownloadProgress' = JNull
                       /\ autofillCall(Fillable(targetFields))
    /\ UNCHANGED written
    /\ UNCHANGED <<formVars, resolveVars, otherCalls>>

\* percentages the download monitor reports
Progresses == {50, 100}

\* A downloadprogress event of the session being created reaches onDownloadProgress.
downloadProgress(progress) ==
    /\ hookOp = "aiAutofill" /\ hookPc = "awaiting"
    /\ op = "autofill" /\ pc = "chrome"
    /\ aiDownloadProgress # JNum(progress)
    /\ aiDownloadProgress' = JNum(progress)
    /\ UNCHANGED <<aiLoading, hookOp, hookPc, hookRet, fieldsToFill, written>>
    /\ UNCHANGED <<formVars, asstVars, resolveVars, otherCalls>>

\* NoThrow: no form.setValue call throws
NoThrow == <<"no throw">>

\* if (fieldsToFill.some(f => String(f) === name)): the entries that are applied
AppliedAll(data) == DOMAIN data
Applied(data) == DOMAIN data \cap Range(fieldsToFill)

\* ai.autofill has settled: the values are applied to the form; form.setValue
\* may throw at one of them, after the entries before it (in the order of the
\* object's keys, whichever that is) have been written. Then the finally block.
aiAutofillApply ==
    /\ hookOp = "aiAutofill" /\ hookPc = "awaiting"
    /\ op = "autofill" /\ pc = "done"
    /\ \E thrower \in Applied(ret.o) \cup {NoThrow} :
          IF thrower = NoThrow
          THEN /\ written' = Applied(ret.o)
               /\ hookPc' = "returned" /\ hookRet' = JUndefined
          ELSE /\ \E before \in SUBSET (Applied(ret.o) \ {thrower}) :
                     written' = before \cup {thrower}
               /\ hookPc' = "thrown" /\ hookRet' = Thrown
    /\ aiLoading' = Finally.aiLoading
    /\ aiDownloadProgress' = Finally.aiDownloadProgress
    /\ UNCHANGED <<hookOp, fieldsToFill>>
    /\ UNCHANGED <<formVars, asstVars, resolveVars, otherCalls>>

\* form.getValues(fieldName), as String(currentValue || '')
CurrentValue(name) == IF name = FName THEN value["name"] ELSE value["email"]

\* aiSuggest is called: up to the await of ai.suggestValue, or to its early return
aiSuggest(fieldName) ==
    /\ hookOp = "none" /\ op = "none"
    /\ hookOp' = "aiSuggest"
    /\ IF ~aiEnabled
       THEN /\ hookPc' = "returned" /\ hookRet' = JNull
            /\ UNCHANGED <<aiLoading, asstVars>>
       ELSE /\ hookPc' = "awaiting" /\ hookRet' = Pending
            /\ aiLoading' = TRUE
            /\ suggestValueCall(fieldName, CurrentValue(fieldName))
    /\ UNCHANGED <<aiDownloadProgress, fieldsToFill, written>>
    /\ UNCHANGED <<formVars, resolveVars, otherCalls>>

\* ai.suggestValue has settled: its suggestion is returned, null if it threw
aiSuggestSettle ==
    /\ hookOp = "aiSuggest" /\ hookPc = "awaiting"
    /\ op = "suggestValue" /\ pc = "done"
    /\ hookPc' = "returned"
    /\ hookRet' = IF ret = Thrown THEN JNull ELSE ret
    /\ aiLoading' = FALSE
    /\ UNCHANGED <<aiDownloadProgress, hookOp, fieldsToFill, written>>
    /\ UNCHANGED <<formVars, asstVars, resolveVars, otherCalls>>

\* aiSuggest is called while other calls are under way: setAiLoading(true), up
\* to the await of ai.suggestValue (whose steps share no state with the others)
aiSuggestOther ==
    /\ aiEnabled
    /\ otherCalls < MaxOverlap
    /\ otherCalls' = otherCalls + 1
    /\ aiLoading' = TRUE
    /\ UNCHANGED <<aiDownloadProgress, hookOp, hookPc, hookRet, fieldsToFill, written>>
    /\ UNCHANGED <<formVars, asstVars, resolveVars>>

\* that call's ai.suggestValue has settled: return or catch, then the finally block
aiSuggestOtherSettle ==
    /\ otherCalls > 0
    /\ otherCalls' = otherCalls - 1
    /\ aiLoading' = FALSE
    /\ UNCHANGED <<aiDownloadProgress, hookOp, hookPc, hookRet, fieldsToFill, written>>
    /\ UNCHANGED <<formVars, asstVars, resolveVars>>

NextHook ==
    \/ \E fields \in AutofillArgs : aiAutofill(fields)
    \/ \E progress \in Progresses : downloadProgress(progress)
    \/ autofillChrome
    \/ autofillServer
    \/ aiAutofillApply
    \/ \E fieldName \in FieldNames : aiSuggest(fieldName)
    \/ suggestChrome
    \/ suggestServer
    \/ aiSuggestSettle

InitAssistant ==
    /\ executionOrder \in Orders
    /\ op = "none"
    /\ pc = "idle"
    /\ callName = <<>>
    /\ callValue = <<>>
    /\ callFields = <<>>
    /\ result = JUndefined
    /\ serverResult = JUndefined
    /\ ret = Pending
    /\ attempts = <<>>
    /\ lm = NoLmCalls
    /\ fetches = 0
    /\ localEnv = NoLocal
    /\ remoteEnv = NoRemote

\* The form hook alone: no assistant call is modelled beyond its invocation.
InitNoCall ==
    /\ executionOrder = <<"chrome", "custom">>
    /\ op = "none"
    /\ pc = "idle"
    /\ callName = <<>>
    /\ callValue = <<>>
    /\ callFields = <<>>
    /\ result = JUndefined
    /\ serverResult = JUndefined
    /\ ret = Pending
    /\ attempts = <<>>
    /\ lm = NoLmCalls
    /\ fetches = 0
    /\ localEnv = NoLocal
    /\ remoteEnv = NoRemote

\* The assistant alone: the form is mounted and idle.
InitFormIdle ==
    /\ aiEnabled \in BOOLEAN
    /\ excludeFields = {}
    /\ mounted = TRUE
    /\ now = 0
    /\ value = [f \in Fields |-> <<>>]
    /\ handlers = {}
    /\ timers = {}
    /\ debounceTimers = [f \in Fields |-> NoTimer]
    /\ nextTimerId = 1
    /\ nBlurs = 0
    /\ nEdits = 0
    /\ calls = <<>>
    /\ lastBlurAt = [f \in Fields |-> Never]
    /\ lastBlurValue = [f \in Fields |-> <<>>]
    /\ editedSince = [f \in Fields |-> FALSE]
    /\ burstCalls = [f \in Fields |-> 0]

NextSuggest ==
    \/ \E name \in FieldNames, v \in {<<>>, Jo} : suggestValue(name, v)
    \/ suggestChrome
    \/ suggestServer

NextAutofill ==
    \/ \E fields \in FieldLists : autofill(fields)
    \/ autofillChrome
    \/ autofillServer

\* The form hook with its debounce timers.
Init == InitForm /\ InitNoCall /\ InitNoProvider /\ InitHook
Next == NextForm
Spec == Init /\ [][Next]_vars

\* One suggestValue call, under every configured execution order.
InitSuggest == InitFormIdle /\ InitAssistant /\ InitNoProvider /\ InitHook
SpecSuggest == InitSuggest /\ [][NextSuggest]_vars

\* One autofill call.
InitAutofill == InitFormIdle /\ InitNoCall /\ InitNoProvider /\ InitHook
SpecAutofill == InitAutofill /\ [][NextAutofill]_vars

\* One call of the assistant: suggestValue, autofill or checkAvailability.
NextAssistant ==
    \/ NextSuggest
    \/ NextAutofill
    \/ NextAvailability
SpecAssistant == InitAutofill /\ [][NextAssistant]_vars

\* One aiAutofill or aiSuggest call of a form, with its exclusion set.
InitHookCall == InitForm /\ InitNoCall /\ InitNoProvider /\ InitHook
SpecHook == InitHookCall /\ [][NextHook]_vars

\* One aiAutofill or aiSuggest call on a form that the user edits.
NextEdited ==
    \/ \E f \in Fields, v \in Values : Edit(f, v)
    \/ NextHook
SpecEdited == InitHookCall /\ [][NextEdited]_vars

\* Calls of aiAutofill and aiSuggest that overlap.
NextOverlap ==
    \/ NextHook
    \/ aiSuggestOther
    \/ aiSuggestOtherSettle
SpecOverlap == InitHookCall /\ [][NextOverlap]_vars

\* The promise of LanguageModel.availability(), LanguageModel.create() or
\* session.prompt() never settles: useChromeAI passes them no timeout, and no
\* caller gives it an abort signal.
NeverSettles == [defined |-> TRUE, availability |-> "readily", create |-> "never settles",
                 prompt |-> NoText]

localNeverSettles ==
    /\ op \in {"suggestValue", "autofill"} /\ pc = "chrome"
    /\ pc' = "chrome pending for ever"
    /\ localEnv' = NeverSettles
    /\ attempts' = Append(attempts, "chrome")
    /\ UNCHANGED <<executionOrder, op, callName, callValue, callFields, result,
                   serverResult, ret, lm, fetches, remoteEnv>>
    /\ UNCHANGED outsideAssistant

\* The promise of fetch() never settles: the request carries no timeout and no
\* abort signal.
remoteNeverSettles ==
    /\ op \in {"suggestValue", "autofill"} /\ pc = "server"
    /\ pc' = "server pending for ever"
    /\ remoteEnv' = [k |-> "never settles"]
    /\ fetches' = fetches + 1
    /\ attempts' = Append(attempts, "custom")
    /\ UNCHANGED <<executionOrder, op, callName, callValue, callFields, result,
                   serverResult, ret, lm, localEnv>>
    /\ UNCHANGED outsideAssistant

\* One aiAutofill or aiSuggest call with providers that may never answer. The
\* event loop runs every continuation whose promise has settled.
NextHookLive ==
    \/ NextHook
    \/ localNeverSettles
    \/ remoteNeverSettles
SpecHookLive ==
    /\ InitHookCall /\ [][NextHookLive]_vars
    /\ WF_vars(suggestChrome) /\ WF_vars(suggestServer) /\ WF_vars(aiSuggestSettle)
    /\ WF_vars(autofillChrome) /\ WF_vars(autofillServer) /\ WF_vars(aiAutofillApply)

\* AIFormProvider resolves its providers.
\* A form whose AI is disabled: what the user and the application can do to it.
\* The steps left out continue a blur handler, a timer or a call that is under
\* way, and none is.
InitDisabled == Init /\ ~aiEnabled
NextDisabled ==
    \/ \E f \in Fields, v \in Values : Edit(f, v)
    \/ \E f \in Fields : onBlur(f)
    \/ cleanup
    \/ Tick
    \/ \E fields \in AutofillArgs : aiAutofill(fields)
    \/ \E fieldName \in FieldNames : aiSuggest(fieldName)
SpecDisabled == InitDisabled /\ [][NextDisabled]_vars

InitProvider == InitFormIdle /\ InitNoCall /\ InitResolve /\ InitHook
SpecResolve == InitProvider /\ [][NextResolve]_vars

\* ------------------------------------------------------------------ debounce claims

\* C1: a burst of blur events of one enhanced field, each less than the quiet
\* period after the previous one and with no teardown, leads to exactly one
\* suggestValue invocation: never a second one for the same burst, none before a
\* quiet period has passed since the last blur, the value being that of the last
\* blur event (the field not having been edited since), and one has been made
\* once nothing is pending for the field any more.
C1_DebounceIdempotence ==
    /\ \A i \in DOMAIN calls :
          ~calls[i].afterTeardown =>
             /\ calls[i].nth = 1
             /\ calls[i].at >= calls[i].lastBlurAt + debounceMs
             /\ (~calls[i].edited => calls[i].value = calls[i].lastBlurValue)
    /\ \A f \in Fields :
          ( /\ Enhanced(f) /\ mounted /\ lastBlurAt[f] # Never
            /\ \A h \in handlers : h.name # f
            /\ \A t \in timers : t.name # f
            /\ ~editedSince[f] /\ HasValue(lastBlurValue[f]) )
          => burstCalls[f] = 1

\* C2: at most one live timer per field name in every state, and it is the one
\* the timer table holds for the field: a handler that starts a timer has
\* cancelled the field's previous one in the same step, whatever the order in
\* which suspended handlers resume.
C2_AtMostOneLiveTimerPerField ==
    /\ \A f \in Fields : Cardinality({t \in timers : t.name = f}) <= 1
    /\ \A t \in timers : debounceTimers[t.name] = t.id

\* Two handlers of one field were suspended together and resumed in the reverse
\* order: the timer of the second blur was replaced by that of the first.
C2_Witness ==
    \E t \in timers :
        /\ t.hid = 1 /\ t.id = 2 /\ timers = {t}
        /\ \A f \in Fields \ {t.name} : lastBlurAt[f] = Never
        /\ now < debounceMs

LiveTimersOf(ts, f) == {t \in ts : t.name = f}

\* C3: a blur event of field f (its arrival, or the rest of its handler) leaves
\* the pending timer and the table entry of every other field as they were, and
\* every timer that fires does so one quiet period after it was scheduled.
C3_DebounceIsolation ==
    [][ /\ \A f \in Fields :
              (onBlur(f) \/ \E h \in handlers : h.name = f /\ onBlurResume(h))
              => \A g \in Fields \ {f} :
                    /\ LiveTimersOf(timers', g) = LiveTimersOf(timers, g)
                    /\ debounceTimers'[g] = debounceTimers[g]
        /\ \A i \in DOMAIN calls' : calls'[i].at = calls'[i].setAt + debounceMs
      ]_vars

\* Field B's timer fired on time although field A's handler started a timer
\* while B's was pending.
C3_Witness ==
    \E i \in DOMAIN calls : \E t \in timers :
        /\ t.name # calls[i].name
        /\ calls[i].setAt < t.setAt /\ t.setAt < calls[i].at
        /\ calls[i].at = calls[i].setAt + debounceMs

\* C4: the teardown of the form session cancels every pending timer without
\* firing it, so that after the teardown no debounce timer invokes suggestValue,
\* for every interleaving of the blur handlers with the teardown.
C4_NoInvocationAfterTeardown ==
    \A i \in DOMAIN calls : ~calls[i].afterTeardown

\* ------------------------------------------------------------------ assistant claims

\* C5: suggestValue with AI disabled has returned null, for every field name and
\* value, without a call to the local model (no probe, no session) and without
\* an HTTP request.
C5_DisabledSuggestIsNull ==
    (op = "suggestValue" /\ ~aiEnabled) =>
        /\ pc = "done" /\ ret = JNull
        /\ lm = NoLmCalls /\ fetches = 0 /\ attempts = <<>>
        /\ localEnv = NoLocal /\ remoteEnv = NoRemote

C5_Witness ==
    /\ op = "suggestValue" /\ ~aiEnabled /\ pc = "done"
    /\ callName = FEmail /\ callValue = Jo /\ ret = JNull

\* The local model was prompted and answered with a text.
LocalAnswered(env) ==
    /\ env.defined
    /\ env.availability \in {"readily", "downloadable", "downloading"}
    /\ env.create = "ok"
    /\ env.prompt # NoText

\* C9: when the local model has answered a suggestValue call with a non-empty
\* text, the call is over without any request to the remote endpoint, and what
\* it returned is that text, cleaned.
C9_ProviderPrecedence ==
    (op = "suggestValue" /\ LocalAnswered(localEnv) /\ Len(localEnv.prompt) > 0) =>
        /\ pc = "done"
        /\ fetches = 0 /\ remoteEnv = NoRemote /\ "custom" \notin Range(attempts)
        /\ ret = JStr(Clean(localEnv.prompt))

C9_Witness ==
    /\ op = "suggestValue" /\ pc = "done"
    /\ LocalAnswered(localEnv) /\ localEnv.prompt = <<"\"", "a", "\"">>
    /\ ret = JStr(<<"a">>) /\ fetches = 0

IsPrefix(p, q) == Len(p) <= Len(q) /\ SubSeq(q, 1, Len(p)) = p

\* C10: the providers a suggestValue call contacts, in order, are a prefix of the
\* execution order configured for the form, and with an empty order the call
\* returns null.
C10_AttemptsFollowExecutionOrder ==
    op = "suggestValue" =>
        /\ IsPrefix(attempts, executionOrder)
        /\ (executionOrder = <<>> /\ pc = "done" => ret = JNull)

\* C6: autofill of a non-empty field list with AI disabled has returned a
\* mapping whose keys are exactly the requested names, each with the value
\* "AI disabled", without a call to either provider.
C6_DisabledAutofill ==
    (op = "autofill" /\ ~aiEnabled /\ callFields # <<>>) =>
        /\ pc = "done" /\ ret.t = "object"
        /\ DOMAIN ret.o = Range(callFields)
        /\ \A f \in DOMAIN ret.o : ret.o[f] = AIDisabled
        /\ lm = NoLmCalls /\ fetches = 0 /\ attempts = <<>>

C6_Witness ==
    /\ op = "autofill" /\ ~aiEnabled /\ pc = "done"
    /\ callFields = <<FEmail, FName>>
    /\ ret.t = "object" /\ ret.o[FName] = AIDisabled /\ ret.o[FEmail] = AIDisabled

\* Some part of the text is a JSON object.
HasJsonObject(s) ==
    \E i \in DOMAIN s : \E j \in DOMAIN s :
        i <= j /\ ParseJSON(SubSeq(s, i, j)).t = "object"

\* The local provider failed: no answer, or an answer with no JSON object in it.
LocalFails(env) == ~LocalAnswered(env) \/ ~HasJsonObject(env.prompt)

\* A field of the remote body is an object or the JSON text of one.
Usable(j) == j.t = "object" \/ (j.t = "string" /\ ParseJSON(j.s).t = "object")

\* The remote provider failed: a network error, a status that is not 2xx, a body
\* that is no JSON, or a body none of whose fields is usable.
RemoteFails(env) ==
    \/ env.k \in {"neterr", "non2xx", "badjson", "jsonnull"}
    \/ env.k = "json" /\ ~Usable(env.suggestion) /\ ~Usable(env.autofillData)

\* C7: autofill of a non-empty field list with AI enabled and both providers
\* failing has returned a mapping whose keys are exactly the requested names,
\* each value being "Example_" followed by the name: the name is what follows the
\* prefix, and two names have two placeholders.
C7_MockMappingRoundTrip ==
    ( /\ op = "autofill" /\ aiEnabled /\ pc = "done" /\ callFields # <<>>
      /\ LocalFails(localEnv) /\ RemoteFails(remoteEnv) ) =>
        /\ ret.t = "object"
        /\ DOMAIN ret.o = Range(callFields)
        /\ \A f \in DOMAIN ret.o :
              /\ SubSeq(ret.o[f], 1, Len(ExamplePrefix)) = ExamplePrefix
              /\ SubSeq(ret.o[f], Len(ExamplePrefix) + 1, Len(ret.o[f])) = f
        /\ \A f \in DOMAIN ret.o : \A g \in DOMAIN ret.o :
              f # g => ret.o[f] # ret.o[g]

C7_Witness ==
    /\ op = "autofill" /\ aiEnabled /\ pc = "done"
    /\ callFields = <<FName, FEmail>>
    /\ LocalAnswered(localEnv) /\ localEnv.prompt = <<"{", "N">>
    /\ remoteEnv.k = "non2xx"
    /\ ret.t = "object"
    /\ ret.o[FEmail] = <<"E", "x", "a", "m", "p", "l", "e", "_", "e", "m", "a", "i", "l">>

\* C8: an autofill call that is over has returned normally, with a mapping that
\* has a key for every requested field name, whatever the providers did.
C8_AutofillIsComplete ==
    (op = "autofill" /\ pc = "done") =>
        /\ ret.t = "object"
        /\ Range(callFields) \subseteq DOMAIN ret.o

\* ------------------------------------------------------------------ resolution claims

\* C11: with an execution order that is given and not empty, the resolved order
\* is that sequence, element for element, whatever the priorities and enabled
\* flags of the providers, also when it names a disabled provider or a type no
\* provider is configured for; the order given is left as it was.
C11_ExplicitOrderVerbatim ==
    (sortedProviders # Unresolved /\ explicitOrder.t = "array" /\ explicitOrder.a # <<>>) =>
        /\ sortedProviders.t = "array"
        /\ Len(sortedProviders.a) = Len(explicitOrder.a)
        /\ \A i \in DOMAIN explicitOrder.a : sortedProviders.a[i] = explicitOrder.a[i]

\* The order names a type with no provider and a provider that is disabled, and
\* runs against the priorities.
C11_Witness ==
    /\ sortedProviders = JArray(<<"openai", "chrome">>)
    /\ explicitOrder = JArray(<<"openai", "chrome">>)
    /\ Len(providers) = 2
    /\ providers[1].type = "chrome" /\ providers[1].enabled = JBool(FALSE)
    /\ providers[2].type = "custom" /\ providers[2].priority = JNum(10)

\* the priority of the i-th provider given, a missing one counting as 0
GivenPriority(i) ==
    IF providersGiven[i].priority = JUndefined THEN 0 ELSE providersGiven[i].priority.n

\* the providers given whose enabled flag is not false
GivenEnabled == {i \in DOMAIN providersGiven : providersGiven[i].enabled # JBool(FALSE)}

\* where the i-th provider given belongs: behind those of a higher priority and
\* those of its own priority given before it
Rank(i) ==
    1 + Cardinality({j \in GivenEnabled :
                        \/ GivenPriority(j) > GivenPriority(i)
                        \/ GivenPriority(j) = GivenPriority(i) /\ j < i})

\* C12: with no execution order given, or an empty one, the resolved order is
\* the types of exactly the providers whose enabled flag is not false, by
\* priority descending, a missing priority counting as 0 and ties staying in the
\* order given; the caller's providers list is as it was.
C12_PriorityOrder ==
    (sortedProviders # Unresolved /\ (explicitOrder = JUndefined \/ explicitOrder = JArray(<<>>))) =>
        /\ sortedProviders.t = "array"
        /\ Len(sortedProviders.a) = Cardinality(GivenEnabled)
        /\ \A i \in GivenEnabled : sortedProviders.a[Rank(i)] = providersGiven[i].type
        /\ providers = providersGiven

\* The provider with the higher priority was given second.
C12_Witness ==
    /\ explicitOrder = JArray(<<>>)
    /\ Len(providersGiven) = 2
    /\ providersGiven[1].type = "custom" /\ providersGiven[1].priority = JNum(5)
    /\ providersGiven[1].enabled = JUndefined
    /\ providersGiven[2].type = "chrome" /\ providersGiven[2].priority = JNum(10)
    /\ sortedProviders = JArray(<<"chrome", "custom">>)

\* ------------------------------------------------------------------ more assistant claims

\* A field of the remote body holds a text that is not empty.
HoldsText(j) == j.t = "string" /\ Len(j.s) > 0

\* C13: a suggestValue call that is over has returned a string or null and has
\* not thrown, whatever the local model did (absent, unavailable, an exception in
\* the probe, create or prompt, a text) and whatever the remote did (network
\* error, status not 2xx, body no JSON, a body whose suggestion or autofillData
\* holds any JSON value); it has returned null when neither provider gave a text.
C13_SuggestNeverThrows ==
    (op = "suggestValue" /\ pc = "done") =>
        /\ ret.t \in {"string", "null"}
        /\ ( ( /\ ~(LocalAnswered(localEnv) /\ Len(localEnv.prompt) > 0)
               /\ ~( /\ remoteEnv.k = "json"
                     /\ (HoldsText(remoteEnv.suggestion) \/ HoldsText(remoteEnv.autofillData)) ) )
             => ret = JNull )

\* C14: a checkAvailability call that is over has returned normally: with the
\* capability absent {available: false, status: "unavailable", needsDownload:
\* false}; when the probe threw {available: false, status: "error",
\* needsDownload: false}; otherwise the probed state as status, available true
\* exactly when that state is not "unavailable", needsDownload true exactly when
\* it is "downloadable".
C14_CheckAvailabilityIsTotal ==
    (op = "checkAvailability" /\ pc = "done") =>
        /\ ret.t = "object"
        /\ DOMAIN ret.o = {"available", "status", "needsDownload"}
        /\ ret.o.available \in BOOLEAN /\ ret.o.needsDownload \in BOOLEAN
        /\ (~localEnv.defined =>
               ~ret.o.available /\ ret.o.status = "unavailable" /\ ~ret.o.needsDownload)
        /\ (localEnv.defined /\ localEnv.availability = "throw" =>
               ~ret.o.available /\ ret.o.status = "error" /\ ~ret.o.needsDownload)
        /\ (localEnv.defined /\ localEnv.availability # "throw" =>
               /\ ret.o.status = localEnv.availability
               /\ ret.o.available = (localEnv.availability # "unavailable")
               /\ ret.o.needsDownload = (localEnv.availability = "downloadable"))

\* The probe answered that the device has no model.
C14_Witness ==
    /\ op = "checkAvailability" /\ pc = "done"
    /\ localEnv.defined /\ localEnv.availability = "unavailable"
    /\ ret = AvailabilityResult(FALSE, "unavailable", FALSE)
    /\ lm.probes = 1

\* ------------------------------------------------------------------ hook claims

\* C15: once an aiAutofill call is over, whether it returned normally, returned
\* early because no field was left to fill, or re-threw an error of applying the
\* values to the form, the download progress is null and aiLoading is false: the
\* error is re-thrown with both already reset.
C15_AutofillResetsProgress ==
    (hookOp = "aiAutofill" /\ hookPc \in {"returned", "thrown"}) =>
        /\ aiDownloadProgress = JNull
        /\ aiLoading = FALSE

\* form.setValue threw at the second value, the model having been downloaded
\* for this call.
C15_Witness ==
    /\ hookOp = "aiAutofill" /\ hookPc = "thrown" /\ hookRet = Thrown
    /\ localEnv.defined /\ localEnv.availability = "downloadable" /\ localEnv.create = "ok"
    /\ written = {FName, FEmail}
    /\ aiDownloadProgress = JNull /\ aiLoading = FALSE

\* C16: a field name in the exclusion set is left out of all AI processing: its
\* blur handler never starts a debounce timer, aiAutofill never requests it from
\* a provider and never writes a value to it, and aiSuggest for it never calls a
\* provider.
C16_ExcludedFieldsUntouched ==
    \A f \in excludeFields :
        /\ \A t \in timers : t.name # f
        /\ \A h \in handlers : h.name # f
        /\ debounceTimers[f] = NoTimer
        /\ (hookOp = "aiAutofill" =>
               /\ FieldName(f) \notin Range(callFields)
               /\ FieldName(f) \notin written)
        /\ (hookOp = "aiSuggest" /\ callName = FieldName(f) =>
               lm = NoLmCalls /\ fetches = 0 /\ attempts = <<>>)

\* C17: no hung request: every aiSuggest and aiAutofill call, and the
\* suggestValue or autofill call it makes, is eventually over (with a value, null
\* or a placeholder mapping), also when the local model's create or prompt call
\* or the HTTP request never settles.
C17_NoHungRequest ==
    /\ (op # "none") ~> (pc = "done")
    /\ (hookOp # "none") ~> (hookPc \in {"returned", "thrown"})

\* ------------------------------------------------------------------ extraction claims

\* how many of s[i..j] are the character c
Count(s, i, j, c) == Cardinality({k \in i..j : s[k] = c})

\* where a brace opened at i is closed again
Closings(s, i) == {j \in i..Len(s) : Count(s, i, j, "{") = Count(s, i, j, "}")}

\* the first balanced {...} part of a text
FirstBalanced(s) ==
    LET starts == {i \in DOMAIN s : s[i] = "{" /\ Closings(s, i) # {}}
    IN IF starts = {} THEN NoMatch
       ELSE LET i == CHOOSE x \in starts : \A y \in starts : x <= y
                j == CHOOSE x \in Closings(s, i) : \A y \in Closings(s, i) : x <= y
            IN SubSeq(s, i, j)

\* C18: when the local model has answered an autofill call with a text whose
\* first balanced {...} part is a JSON object (prose, the object, more prose,
\* the prose possibly with braces of its own), the call returns that object and
\* does not ask the remote.
C18_FirstBalancedObject ==
    ( /\ op = "autofill" /\ pc = "done" /\ LocalAnswered(localEnv)
      /\ FirstBalanced(localEnv.prompt) # NoMatch
      /\ ParseJSON(FirstBalanced(localEnv.prompt)).t = "object" ) =>
        /\ ret = ParseJSON(FirstBalanced(localEnv.prompt))
        /\ fetches = 0 /\ remoteEnv = NoRemote

\* ------------------------------------------------------------------ attempt claims

\* C19: within one suggestValue or autofill call the local attempt is over
\* (returned or failed) before the remote attempt begins, each provider is
\* attempted at most once (the local model is not asked again after an answer
\* that does not parse to an object), and at most one HTTP POST is issued.
C19_OneAttemptEachInTurn ==
    (op \in {"suggestValue", "autofill"}) =>
        /\ lm.probes <= 1 /\ lm.creates <= 1 /\ lm.prompts <= 1
        /\ fetches <= 1
        /\ \A i \in DOMAIN attempts : \A j \in DOMAIN attempts :
              attempts[i] = attempts[j] => i = j
        /\ ( (pc = "server" \/ fetches > 0 \/ remoteEnv # NoRemote) =>
               /\ localEnv # NoLocal
               /\ (pc = "server" => result \in {JNull, JStr(localEnv.prompt)})
               /\ (fetches > 0 => attempts[Len(attempts)] = "custom") )

\* The local model answered an autofill call with prose only; the remote was
\* then asked, once.
C19_Witness ==
    /\ op = "autofill" /\ pc = "done"
    /\ LocalAnswered(localEnv) /\ localEnv.prompt = <<"p", "{", "N">>
    /\ lm.prompts = 1 /\ fetches = 1
    /\ attempts = <<"chrome", "custom">>

\* a text that cleaning leaves as it is: no blank and no quote at either end
Plain(text) ==
    /\ text # <<>>
    /\ Head(text) \notin WS \cup Quotes
    /\ text[Len(text)] \notin WS \cup Quotes

\* C20: in a suggestValue call, when the capability is absent or the probe
\* reports "unavailable", no session is created and the call goes on to the
\* remote provider, whose suggestion (cleaned) is the result; when the probe
\* reports "downloadable" or "downloading", a session creation is attempted all
\* the same.
C20_LocalAttemptProtocol ==
    (op = "suggestValue" /\ localEnv # NoLocal) =>
        /\ ( (~localEnv.defined \/ localEnv.availability = "unavailable") =>
               /\ lm.creates = 0 /\ lm.prompts = 0
               /\ (~localEnv.defined => lm.probes = 0)
               /\ pc \in {"server", "done"}
               /\ ( pc = "done" =>
                      /\ fetches = 1 /\ remoteEnv # NoRemote
                      /\ attempts[Len(attempts)] = "custom"
                      /\ ( (remoteEnv.k = "json" /\ HoldsText(remoteEnv.suggestion)) =>
                             /\ ret.t = "string"
                             /\ ret.s = Clean(remoteEnv.suggestion.s)
                             /\ (Plain(remoteEnv.suggestion.s) =>
                                    ret.s = remoteEnv.suggestion.s) ) ) )
        /\ ( (localEnv.defined /\ localEnv.availability \in {"downloadable", "downloading"}) =>
               lm.probes = 1 /\ lm.creates = 1 )

\* The probe reported "unavailable" and the remote answered with a suggestion.
C20_Witness ==
    /\ op = "suggestValue" /\ pc = "done" /\ callName = FEmail
    /\ localEnv.defined /\ localEnv.availability = "unavailable"
    /\ lm = [NoLmCalls EXCEPT !.probes = 1]
    /\ remoteEnv.k = "json" /\ remoteEnv.suggestion = JStr(<<"a", "'", "a">>)
    /\ ret = JStr(<<"a", "'", "a">>)

\* The model was still to be downloaded: the session was created and prompted.
C20_WitnessDownloadable ==
    /\ op = "suggestValue" /\ pc = "done"
    /\ localEnv.defined /\ localEnv.availability = "downloadable" /\ localEnv.create = "ok"
    /\ lm.creates = 1 /\ lm.prompts = 1 /\ fetches = 0
    /\ ret = JStr(<<"a">>)

\* ------------------------------------------------------------------ expiry claims

\* a value that is empty or consists of white space only
Blank(v) == \A i \in DOMAIN v : v[i] = " "

\* C21: when a field's debounce timer expires, suggestValue is invoked with the
\* value the field holds at that moment, not the one it held at the blur, and
\* only if that value is not blank; an expiry with a blank value invokes nothing.
C21_LiveValueAtExpiry ==
    [][ \A t \in timers :
            timerCallback(t) =>
                IF Blank(value[t.name])
                THEN calls' = calls
                ELSE /\ Len(calls') = Len(calls) + 1
                     /\ SubSeq(calls', 1, Len(calls)) = calls
                     /\ calls'[Len(calls')].name = t.name
                     /\ calls'[Len(calls')].value = value[t.name]
      ]_vars

\* The field was empty at its blur and was filled in before the timer expired:
\* the invocation carries the later value.
C21_Witness ==
    \E i \in DOMAIN calls :
        /\ calls[i].edited /\ calls[i].lastBlurValue = <<>>
        /\ calls[i].value = Jo /\ value[calls[i].name] = Jo

\* C22: the rest of a blur handler cancels the field's pending timer and starts
\* a new one only when the field's value at the blur was not blank; after a blur
\* with a blank value the field's pending timer and its table entry are as
\* before. (The handler of the latest blur event is looked at: the value at its
\* blur is lastBlurValue.)
C22_BlankBlurLeavesTimer ==
    [][ \A h \in handlers :
            (onBlurResume(h) /\ h.hid = nBlurs) =>
                IF Blank(lastBlurValue[h.name])
                THEN /\ LiveTimersOf(timers', h.name) = LiveTimersOf(timers, h.name)
                     /\ debounceTimers'[h.name] = debounceTimers[h.name]
                ELSE /\ LiveTimersOf(timers', h.name) \cap timers = {}
                     /\ Cardinality(LiveTimersOf(timers', h.name)) = 1
                     /\ \A t \in LiveTimersOf(timers', h.name) : t.due = now + debounceMs
      ]_vars

\* C23: the timer table holds outstanding handles only: in every state the
\* fields with an entry in the table are the fields with a live pending timer,
\* so that a field whose timer has fired has no entry.
C23_TableHoldsLiveTimersOnly ==
    {f \in Fields : debounceTimers[f] # NoTimer} = {t.name : t \in timers}

\* C25: the form context of a suggestion request is the form's field values at
\* the moment the request is made, the expiry of the debounce timer: every edit
\* made before the timer fires is in the context that is sent.
C25_FormContextAtRequestTime ==
    [][ \A t \in timers :
            (timerCallback(t) /\ calls' # calls) =>
                calls'[Len(calls')].formContext = value
      ]_vars

\* C24: every session of the local model that was created is destroyed, on
\* every path: once the local attempt of a call is over, a session that
\* LanguageModel.create() returned has been destroyed, also when prompt() threw.
C24_SessionAlwaysDestroyed ==
    (localEnv # NoLocal /\ localEnv.defined /\ lm.creates = 1 /\ localEnv.create = "ok") =>
        lm.destroys = 1

\* C27: aiAutofill writes exactly the returned keys that are in the requested,
\* non-excluded list: when it has returned after ai.autofill settled,
\* form.setValue was called for those names and for no other, and a call in
\* which form.setValue threw has written some of those names only; the form's
\* values are otherwise as they were.
C27_WritesRequestedReturnedKeys ==
    (hookOp = "aiAutofill" /\ op = "autofill" /\ pc = "done") =>
        LET requested == {n \in Range(callFields) : \A f \in excludeFields : FieldName(f) # n}
            returned  == DOMAIN ret.o
        IN /\ Range(fieldsToFill) = requested
           /\ (hookPc = "awaiting" => written = {})
           /\ (hookPc = "returned" => written = returned \cap requested)
           /\ (hookPc = "thrown" => written \subseteq returned \cap requested)

\* The provider answered with values for both fields, only one of which was
\* requested: that one alone was written.
C27_Witness ==
    /\ hookOp = "aiAutofill" /\ hookPc = "returned" /\ pc = "done"
    /\ fieldsToFill = <<FName>>
    /\ DOMAIN ret.o = {FName, FEmail}
    /\ written = {FName}

\* The call was for every field, one of them excluded: the provider answered
\* for both and the excluded one was not written.
C27_WitnessExcluded ==
    /\ hookOp = "aiAutofill" /\ hookPc = "returned" /\ pc = "done"
    /\ excludeFields = {"email"}
    /\ DOMAIN ret.o = {FName, FEmail}
    /\ written = {FName}

\* The text between the first and the last character of s that is no white
\* space, without one quote character at its start and one at its end if they
\* are there (the same character is not taken off twice).
Stripped(s) ==
    LET inked == {i \in DOMAIN s : s[i] \notin WS}
    IN IF inked = {} THEN <<>>
       ELSE LET lo  == CHOOSE i \in inked : \A j \in inked : i <= j
                hi  == CHOOSE i \in inked : \A j \in inked : j <= i
                lo2 == IF s[lo] \in Quotes THEN lo + 1 ELSE lo
                hi2 == IF s[hi] \in Quotes /\ hi >= lo2 THEN hi - 1 ELSE hi
            IN SubSeq(s, lo2, hi2)

\* C29: the suggestion a provider gave is returned with its surrounding white
\* space taken off and then at most one leading and one trailing quote
\* character (single or double); quote characters and white space further in
\* are left as they are.
C29_StripsOneQuoteLayer ==
    (op = "suggestValue" /\ pc = "done" /\ result.t = "string" /\ Len(result.s) > 0) =>
        /\ ret = JStr(Stripped(result.s))
        /\ Len(ret.s) >= Len(Trim(result.s)) - 2

\* A provider answered with two quote characters before a letter: the inner
\* quote character is left.
C29_Witness ==
    /\ op = "suggestValue" /\ pc = "done"
    /\ result = JStr(<<"\"", "\"", "a">>)
    /\ ret = JStr(<<"\"", "a">>)

\* White space inside the quotes is left.
C29_WitnessInner ==
    /\ op = "suggestValue" /\ pc = "done"
    /\ result = JStr(<<"'", " ", "'">>)
    /\ ret = JStr(<<" ">>)

\* the steps that continue a blur handler, a timer or a call under way
Continuation ==
    \/ \E h \in handlers : onBlurResume(h)
    \/ \E t \in timers : timerCallback(t)
    \/ \E progress \in Progresses : downloadProgress(progress)
    \/ autofillChrome \/ autofillServer \/ aiAutofillApply
    \/ suggestChrome \/ suggestServer \/ aiSuggestSettle

\* C28: while AI is disabled, aiAutofill and aiSuggest return at once: no
\* provider is contacted, no form value is written, aiLoading and the download
\* progress are as before, and aiSuggest returns null; a field registered while
\* AI is disabled has the base registration, so that a blur creates no handler
\* continuation and no timer. Nothing is left under way.
C28_DisabledShortCircuit ==
    ~aiEnabled =>
        /\ handlers = {} /\ timers = {} /\ calls = <<>>
        /\ \A f \in Fields : debounceTimers[f] = NoTimer
        /\ op = "none" /\ lm = NoLmCalls /\ fetches = 0 /\ attempts = <<>>
        /\ written = {}
        /\ aiLoading = FALSE /\ aiDownloadProgress = JNull
        /\ (hookOp # "none" => hookPc = "returned")
        /\ (hookOp = "aiAutofill" => hookRet = JUndefined)
        /\ (hookOp = "aiSuggest" => hookRet = JNull)
        /\ ~ENABLED Continuation

\* A field holding a text was blurred, the quiet period has passed, and
\* aiSuggest has returned null.
C28_Witness ==
    /\ ~aiEnabled /\ excludeFields = {}
    /\ \E f \in Fields :
          /\ lastBlurValue[f] = Jo /\ value[f] = Jo
          /\ lastBlurAt[f] # Never /\ now >= lastBlurAt[f] + debounceMs
    /\ hookOp = "aiSuggest" /\ hookPc = "returned" /\ hookRet = JNull

\* aiAutofill has returned after a blur.
C28_WitnessAutofill ==
    /\ ~aiEnabled /\ nBlurs > 0
    /\ hookOp = "aiAutofill" /\ hookPc = "returned"

\* C30: aiLoading is true in every state in which at least one aiAutofill or
\* aiSuggest call is under way, also when calls overlap: it is false only when
\* the last of them is over.
C30_LoadingWhileAnyCallInFlight ==
    ((hookOp # "none" /\ hookPc = "awaiting") \/ otherCalls > 0) => aiLoading = TRUE

\* the form's values, had the excluded field f held v
HadHeld(f, v) == [value EXCEPT ![f] = v]

\* what aiSuggest hands to the provider for a field when the form holds vals:
\* the field's name, its current value, and the form context of its assistant
RequestOf(vals, name) ==
    [fieldName |-> name,
     currentValue |-> IF name = FName THEN vals["name"] ELSE vals["email"],
     formContext |-> RegisteredFormContext]

\* C26: the current value of an excluded field has no influence on a request to
\* a provider: the request an aiSuggest call makes is the one it would have made
\* had any excluded field held any other value.
C26_ExcludedValueNotInRequest ==
    [][ \A fieldName \in FieldNames :
            (aiSuggest(fieldName) /\ op' = "suggestValue") =>
                \A f \in excludeFields, v \in Values :
                    [fieldName |-> callName', currentValue |-> callValue',
                     formContext |-> RegisteredFormContext]
                        = RequestOf(HadHeld(f, v), fieldName)
      ]_vars

\* C31: suggestValue never returns an empty string: whatever text a provider
\* answered with, also one of quote characters and white space only, a call
\* that returned a string returned one that is not empty.
C31_NeverEmptySuggestion ==
    (op = "suggestValue" /\ pc = "done" /\ ret.t = "string") => Len(ret.s) > 0

====
